---------------------------- MODULE Spec2Model ----------------------------
(***************************************************************************)
(* Basket / cart synchronisation of the food-ordering client.              *)
(*                                                                         *)
(* The model follows src/src/context/BusinessContext.tsx (BusinessProvider *)
(* and BasketProvider) and src/src/services/apiService.ts (request and the *)
(* cart calls built on it).  React state is held in `state`; the values a  *)
(* memoised callback sees are those of the render that created it, held in *)
(* `rendered` and `toggleClosure`; refs are held in `refs` and are written *)
(* by effects, i.e. by Render.  Every asynchronous function is a task that *)
(* is suspended at a fetch or at an AsyncStorage call; the remote Store    *)
(* API handles one request at a time, in Respond.                           *)
(***************************************************************************)
EXTENDS Integers, Sequences, FiniteSets, TLC

\* ------------------------------------------------------------------ bounds
MaxQty == 2        \* largest quantity of one product the remote cart accepts
MaxTokens == 3     \* cart sessions the remote service issues in one behaviour
MaxTasks == 2      \* asynchronous functions suspended at the same time
MaxOps == 3        \* gestures in one behaviour, one function at a time
RaceOps == 2       \* gestures in one behaviour with overlapping functions
MaxFails == 1      \* requests that fail in one behaviour
LiveOps == 2       \* gestures in one behaviour checked for progress

Businesses == {1, 2}
NoBusiness == 0
Products == {1, 2}
NoToken == 0
Tokens == 1..MaxTokens
TaskIds == 1..MaxTasks
Methods == {"flat_rate", "local_pickup"}

\* The menu a product is shown on (OrderScreen lists the active business's
\* products only).
BusinessOf(p) == p

\* CONFIG.DELIVERY_METHOD_ID / CONFIG.COLLECTION_METHOD_ID as used by toggleMode.
MethodOf(mode) == IF mode = "delivery" THEN "flat_rate" ELSE "local_pickup"

\* itemId.toString() in getCartUpdateEndpoint, and the remote parse of it.
IdString(n) == CASE n = 1 -> "1" [] n = 2 -> "2" [] OTHER -> "?"
ParseId(s) == CASE s = "1" -> 1 [] s = "2" -> 2 [] OTHER -> 0

\* -------------------------------------------------------- remote Store API
\* The key the remote cart assigns to the line item of product p.
KeyOf(p) == p + 10

EmptySession == [items |-> [p \in Products |-> 0], sel |-> "flat_rate"]

RECURSIVE SumQty(_, _)
SumQty(items, ps) ==
  IF ps = {} THEN 0
  ELSE LET p == CHOOSE x \in ps : TRUE IN items[p] + SumQty(items, ps \ {p})

NoCart == [present |-> FALSE, items |-> {}, items_count |-> 0,
           rates |-> {}, sel |-> "none"]

\* The rate_id of the shipping rate with a given method_id.
RateId(m) == IF m = "flat_rate" THEN "flat_rate:1" ELSE "local_pickup:2"

\* The cart representation GET /cart returns for a session.
CartView(s) ==
  LET inCart == {p \in Products : s.items[p] > 0} IN
  [present |-> TRUE,
   items |-> {[id |-> p, key |-> KeyOf(p), quantity |-> s.items[p]] : p \in inCart},
   items_count |-> SumQty(s.items, Products),
   rates |-> IF inCart = {} THEN {}
             ELSE {[method_id |-> m, rate_id |-> RateId(m)] : m \in Methods},
   sel |-> IF inCart = {} THEN "none" ELSE s.sel]

NoReq == [method |-> "", path |-> "", key |-> 0, id |-> "", quantity |-> 0,
          requests |-> <<>>, rate_id |-> "", token |-> NoToken]

NoOut == [status |-> "", token |-> NoToken, cart |-> NoCart, failed |-> 0]

\* One add-item sub-request of a batch.
AddOne(s, id, quantity) ==
  IF id \in Products /\ quantity > 0 /\ s.items[id] + quantity <= MaxQty
  THEN [ok |-> TRUE, s |-> [s EXCEPT !.items[id] = @ + quantity]]
  ELSE [ok |-> FALSE, s |-> s]

RECURSIVE BatchApply(_, _)
BatchApply(s, rs) ==
  IF rs = <<>> THEN [s |-> s, failed |-> 0]
  ELSE LET a == AddOne(s, rs[1].id, rs[1].quantity)
           r == BatchApply(a.s, Tail(rs))
       IN [s |-> r.s, failed |-> r.failed + (IF a.ok THEN 0 ELSE 1)]

\* What the remote service does with request r on session s:
\* [ok, s (the session afterwards), failed (sub-requests with status >= 400)].
Handle(s, r) ==
  LET hit == {p \in Products : KeyOf(p) = r.key /\ s.items[p] > 0} IN
  CASE r.method = "GET" /\ r.path = "/cart" ->
         [ok |-> TRUE, s |-> s, failed |-> 0]
    [] r.method = "POST" /\ r.path \in {"/cart/add-item", "/cart/items"} ->
         LET a == AddOne(s, ParseId(r.id), r.quantity)
         IN [ok |-> a.ok, s |-> a.s, failed |-> 0]
    [] r.method = "PUT" /\ r.path = "/cart/items/{key}" ->
         IF hit # {} /\ r.quantity \in 1..MaxQty
         THEN [ok |-> TRUE, failed |-> 0,
               s |-> [s EXCEPT !.items = [p \in Products |->
                                IF p \in hit THEN r.quantity ELSE @[p]]]]
         ELSE [ok |-> FALSE, s |-> s, failed |-> 0]
    [] r.method = "DELETE" /\ r.path = "/cart/items/{key}" ->
         IF hit # {}
         THEN [ok |-> TRUE, failed |-> 0,
               s |-> [s EXCEPT !.items = [p \in Products |->
                                IF p \in hit THEN 0 ELSE @[p]]]]
         ELSE [ok |-> FALSE, s |-> s, failed |-> 0]
    [] r.method = "DELETE" /\ r.path = "/cart/items" ->
         [ok |-> TRUE, s |-> [s EXCEPT !.items = [p \in Products |-> 0]], failed |-> 0]
    [] r.method = "POST" /\ r.path = "/batch" ->
         LET b == BatchApply(s, r.requests)
         IN [ok |-> TRUE, s |-> b.s, failed |-> b.failed]
    [] r.method = "POST" /\ r.path = "/cart/select-shipping-rate" ->
         IF \E x \in CartView(s).rates : x.rate_id = r.rate_id
         THEN [ok |-> TRUE, failed |-> 0,
               s |-> [s EXCEPT !.sel = (CHOOSE x \in CartView(s).rates :
                                          x.rate_id = r.rate_id).method_id]]
         ELSE [ok |-> FALSE, s |-> s, failed |-> 0]
    [] r.method = "POST" /\ r.path = "/checkout" ->
         IF CartView(s).items # {}
         THEN [ok |-> TRUE, s |-> EmptySession, failed |-> 0]
         ELSE [ok |-> FALSE, s |-> s, failed |-> 0]
    [] OTHER -> [ok |-> FALSE, s |-> s, failed |-> 0]

\* ------------------------------------------------------------------- state
VARIABLES
  server,          \* remote service: sessions by cart token, tokens issued
  storage,         \* AsyncStorage: '@Cart:token', '@Cart:originBusiness'
  activeBusiness,  \* BusinessProvider.activeBusiness (a business id)
  state,           \* BasketProvider useState values
  refs,            \* BasketProvider useRef values
  rendered,        \* the state values of the last render (callback closures)
  toggleClosure,   \* what the memoised toggleMode captured (deps [isSyncing])
  originLoading,   \* loadOrigin is awaiting AsyncStorage.getItem
  tasks,           \* suspended asynchronous functions
  last,            \* the asynchronous function that returned in the last step
  call,            \* the handler called in the last step and what it did
  limits,          \* slots: functions that may overlap; ops: gestures allowed
  ops,             \* handler calls and restarts so far
  fails,           \* requests lost so far
  checkout         \* CheckoutScreen: its useState values and selections it reads

vars == <<server, storage, activeBusiness, state, refs, rendered,
          toggleClosure, originLoading, tasks, last, call, limits, ops, fails,
          checkout>>

NoItem == [id |-> 0, qty |-> 0]

InitialState ==
  [cart |-> NoCart, isDelivery |-> TRUE, isSyncing |-> FALSE,
   originBusiness |-> NoBusiness, pendingItem |-> NoItem,
   conflictModalVisible |-> FALSE, cartToken |-> NoToken,
   hasInitializedCart |-> FALSE]

\* CheckoutScreen as it mounts, with selectedBillingAddress and
\* selectedShippingAddress of the basket context (an address is selected or not).
InitialCheckout ==
  [currentStage |-> "REVIEW", selectedPaymentMethod |-> "",
   selectedBillingAddress |-> FALSE, selectedShippingAddress |-> FALSE,
   isLoading |-> FALSE, error |-> FALSE, finalOrder |-> FALSE,
   paymentWebView |-> FALSE]

\* cartRef, cartTokenRef and mounted as useRef creates them.
InitialRefs == [cartRef |-> NoCart, cartTokenRef |-> NoToken, mounted |-> TRUE]

Snapshot(st) ==
  [cart |-> st.cart, isDelivery |-> st.isDelivery, isSyncing |-> st.isSyncing,
   originBusiness |-> st.originBusiness, pendingItem |-> st.pendingItem,
   conflictModalVisible |-> st.conflictModalVisible]

IdleTask ==
  [op |-> "none", pc |-> "idle", itemId |-> 0, qty |-> 0, items |-> <<>>,
   biz |-> NoBusiness, req |-> NoReq, out |-> NoOut, reqs |-> <<>>,
   result |-> "", start |-> "", token |-> NoToken, prev |-> "",
   before |-> [cart |-> NoCart, originBusiness |-> NoBusiness]]

\* The cart a handler saw when it was called: none loaded, empty, or items.
StartOf(cart) ==
  IF ~cart.present THEN "none"
  ELSE IF cart.items_count = 0 THEN "empty" ELSE "items"

NewTask(op) == [IdleTask EXCEPT !.op = op]

\* The cart and the origin in state when a handler is called.
Before(st) == [cart |-> st.cart, originBusiness |-> st.originBusiness]

\* initializeCart up to its first await: cartTokenManager.loadCartToken().
InitTask == [NewTask("initializeCart") EXCEPT !.pc = "loadCartToken"]

NoCall == [op |-> "", id |-> 0, qty |-> 0, items |-> <<>>, mode |-> "",
           did |-> ""]

Start ==
  /\ server = [sessions |-> [t \in Tokens |-> EmptySession], issued |-> 0]
  /\ storage = [token |-> NoToken, origin |-> NoBusiness]
  /\ activeBusiness = NoBusiness
  /\ state = InitialState
  /\ refs = InitialRefs
  /\ rendered = Snapshot(InitialState)
  /\ toggleClosure = [isSyncing |-> FALSE, cart |-> NoCart]
  /\ originLoading = TRUE
  /\ tasks = [t \in TaskIds |-> IF t = 1 THEN InitTask ELSE IdleTask]
  /\ last = IdleTask
  /\ call = NoCall
  /\ ops = 0
  /\ fails = 0
  /\ checkout = InitialCheckout

\* Gestures start an asynchronous function only when none is suspended.
Init == Start /\ limits = [slots |-> 1, ops |-> MaxOps]

\* Gestures may start an asynchronous function while others are suspended.
InitRace == Start /\ limits = [slots |-> MaxTasks, ops |-> RaceOps]

\* ------------------------------------------------------------ client steps
\* A client step maps c = [tk, st, sg] (the running task, the React state and
\* AsyncStorage) to the same record after the step.

\* request(): reads the token ref, sends, and suspends the task at fetch.
Send(tk, pc, r) ==
  LET q == [r EXCEPT !.token = refs.cartTokenRef]
  IN [tk EXCEPT !.pc = pc, !.req = q, !.out = NoOut, !.reqs = Append(@, q)]

Finish(tk, result) ==
  [tk EXCEPT !.pc = "done", !.req = NoReq, !.out = NoOut, !.result = result]

GetCart == [NoReq EXCEPT !.method = "GET", !.path = "/cart"]

\* getCartUpdateEndpoint addressing the line item by the product id.
getCartUpdateEndpointByProductId(itemId, newQuantity, currentCart) ==
  LET existing == {i \in currentCart.items : i.id = itemId} IN
  IF ~currentCart.present
  THEN [NoReq EXCEPT !.method = "POST", !.path = "/cart/items",
                     !.id = IdString(itemId), !.quantity = newQuantity]
  ELSE IF newQuantity <= 0 /\ existing # {}
  THEN [NoReq EXCEPT !.method = "DELETE", !.path = "/cart/items/{key}",
                     !.key = itemId]
  ELSE IF existing # {}
  THEN [NoReq EXCEPT !.method = "PUT", !.path = "/cart/items/{key}",
                     !.key = itemId,
                     !.quantity = newQuantity]
  ELSE IF newQuantity > 0
  THEN [NoReq EXCEPT !.method = "POST", !.path = "/cart/add-item",
                     !.id = IdString(itemId), !.quantity = newQuantity]
  ELSE [NoReq EXCEPT !.method = "POST"]

getCartUpdateEndpoint(itemId, newQuantity, currentCart) ==
  LET existing == {i \in currentCart.items : i.id = itemId} IN
  IF ~currentCart.present
  THEN [NoReq EXCEPT !.method = "POST", !.path = "/cart/items",
                     !.id = IdString(itemId), !.quantity = newQuantity]
  ELSE IF newQuantity <= 0 /\ existing # {}
  THEN [NoReq EXCEPT !.method = "DELETE", !.path = "/cart/items/{key}",
                     !.key = (CHOOSE i \in existing : TRUE).key]
  ELSE IF existing # {}
  THEN [NoReq EXCEPT !.method = "PUT", !.path = "/cart/items/{key}",
                     !.key = (CHOOSE i \in existing : TRUE).key,
                     !.quantity = newQuantity]
  ELSE IF newQuantity > 0
  THEN [NoReq EXCEPT !.method = "POST", !.path = "/cart/add-item",
                     !.id = IdString(itemId), !.quantity = newQuantity]
  ELSE [NoReq EXCEPT !.method = "POST"]

\* performBasketUpdate dropping the local cart before it sends.
performBasketUpdateDropsCart(c) ==
  LET r == getCartUpdateEndpoint(c.tk.itemId, c.tk.qty, refs.cartRef) IN
  IF r.path = ""
  THEN [c EXCEPT !.st.isSyncing = FALSE, !.tk = Finish(c.tk, "noop")]
  ELSE [c EXCEPT !.st.isSyncing = TRUE, !.st.cart = NoCart,
                 !.tk = Send(c.tk, "mutation", r)]

\* performBasketUpdate up to its first await.
performBasketUpdate(c) ==
  LET r == getCartUpdateEndpoint(c.tk.itemId, c.tk.qty, refs.cartRef) IN
  IF r.path = ""
  THEN [c EXCEPT !.st.isSyncing = FALSE, !.tk = Finish(c.tk, "noop")]
  ELSE [c EXCEPT !.st.isSyncing = TRUE, !.tk = Send(c.tk, "mutation", r)]

\* AfterMutation re-fetching only when the response carried a body (not after
\* a DELETE).
AfterMutationNeedsBody(c) ==
  IF c.tk.out.status # "ok"
  THEN [c EXCEPT !.st.isSyncing = FALSE, !.tk = Finish(c.tk, "caught")]
  ELSE IF c.tk.reqs[Len(c.tk.reqs)].method = "DELETE"
  THEN [c EXCEPT !.st.isSyncing = FALSE, !.tk = Finish(c.tk, "ok")]
  ELSE [c EXCEPT !.tk = Send(c.tk, "refetch", GetCart)]

\* performBasketUpdate after sendWooCommerceCartUpdate settled.
AfterMutation(c) ==
  IF c.tk.out.status = "ok"
  THEN [c EXCEPT !.tk = Send(c.tk, "refetch", GetCart)]
  ELSE [c EXCEPT !.st.isSyncing = FALSE, !.tk = Finish(c.tk, "caught")]

\* AfterRefetch with the re-fetched cart dropped (setCart not called).
AfterRefetchKeepsCart(c) ==
  IF c.tk.out.status # "ok"
  THEN [c EXCEPT !.st.isSyncing = FALSE, !.tk = Finish(c.tk, "caught")]
  ELSE [c EXCEPT !.st.isSyncing = FALSE, !.tk = Finish(c.tk, "ok")]

\* performBasketUpdate after getWooCommerceCart settled.
AfterRefetch(c) ==
  IF c.tk.out.status # "ok"
  THEN [c EXCEPT !.st.isSyncing = FALSE, !.tk = Finish(c.tk, "caught")]
  ELSE IF c.tk.out.cart.items_count = 0
  THEN [c EXCEPT !.st.cart = c.tk.out.cart,
                 !.st.originBusiness = NoBusiness,
                 !.sg.origin = NoBusiness,
                 !.st.isSyncing = FALSE, !.tk = Finish(c.tk, "ok")]
  ELSE [c EXCEPT !.st.cart = c.tk.out.cart, !.st.isSyncing = FALSE,
                 !.tk = Finish(c.tk, "ok")]

\* initializeCart after loadCartToken resolved: state token set, GET /cart sent.
AfterLoadCartToken(c) ==
  [c EXCEPT !.st.cartToken = c.sg.token, !.tk = Send(c.tk, "initialFetch", GetCart)]

\* initializeCart after getWooCommerceCart settled: setCart, and
\* setHasInitializedCart(true) if (mounted.current).
AfterInitialFetch(c) ==
  IF c.tk.out.status = "ok"
  THEN [c EXCEPT !.st.cart = c.tk.out.cart,
                 !.st.hasInitializedCart = IF refs.mounted THEN TRUE ELSE @,
                 !.tk = Finish(c.tk, "ok")]
  ELSE [c EXCEPT !.tk = Finish(c.tk, "threw")]

ClearCartReq == [NoReq EXCEPT !.method = "DELETE", !.path = "/cart/items"]

\* handleClearAndAdd after clearCart: setCart(null), the new origin, the add.
AfterClear(c) ==
  IF c.tk.biz # NoBusiness
  THEN [c EXCEPT !.st.cart = NoCart,
                 !.st.originBusiness = c.tk.biz,
                 !.sg.origin = c.tk.biz,
                 !.tk.pc = "saveOrigin", !.tk.req = NoReq, !.tk.out = NoOut]
  ELSE performBasketUpdate([c EXCEPT !.st.cart = NoCart])

\* handleClearAndAdd from setIsSyncing(true) on; clearCart sends only when a
\* cart token is held.
ClearAndAddBody(c) ==
  LET c1 == [c EXCEPT !.st.isSyncing = TRUE] IN
  IF refs.cartTokenRef # NoToken
  THEN [c1 EXCEPT !.tk = Send(c.tk, "clearForAdd", ClearCartReq)]
  ELSE AfterClear(c1)

\* handleClearAndAdd dropping the local cart although the clear request failed.
AfterClearForAddDropsCart(c) ==
  IF c.tk.out.status = "ok"
  THEN AfterClear(c)
  ELSE [c EXCEPT !.st.isSyncing = FALSE, !.st.cart = NoCart,
                 !.tk = Finish(c.tk, "caught")]


AfterClearForAdd(c) ==
  IF c.tk.out.status = "ok"
  THEN AfterClear(c)
  ELSE [c EXCEPT !.st.isSyncing = FALSE, !.tk = Finish(c.tk, "caught")]

\* BatchRequests with only the first line item taken.
BatchRequestsFirstLine(items) ==
  [i \in 1..(IF Len(items) = 0 THEN 0 ELSE 1) |->
     [path |-> "/wc/store/v1/cart/add-item", method |-> "POST",
      id |-> items[i].product_id, quantity |-> items[i].quantity]]

\* The sub-requests reorderItems builds from the line items.
BatchRequests(items) ==
  [i \in 1..Len(items) |->
     [path |-> "/wc/store/v1/cart/add-item", method |-> "POST",
      id |-> items[i].product_id, quantity |-> items[i].quantity]]

\* reorderItems: the catch block, a re-fetch.
Resync(c) == [c EXCEPT !.tk = Send(c.tk, "resync", GetCart)]

\* reorderItems after clearCart resolved.
AfterReorderClear(c) ==
  IF Len(c.tk.items) = 0
  THEN [c EXCEPT !.tk = Send(c.tk, "emptyFetch", GetCart)]
  ELSE [c EXCEPT !.tk = Send(c.tk, "batch",
            [NoReq EXCEPT !.method = "POST", !.path = "/batch",
                          !.requests = BatchRequests(c.tk.items)])]

ReorderBody(c) ==
  LET c1 == [c EXCEPT !.st.isSyncing = TRUE] IN
  IF refs.cartTokenRef # NoToken
  THEN [c1 EXCEPT !.tk = Send(c.tk, "clearForReorder", ClearCartReq)]
  ELSE AfterReorderClear(c1)

AfterClearForReorder(c) ==
  IF c.tk.out.status = "ok" THEN AfterReorderClear(c) ELSE Resync(c)

AfterBatch(c) ==
  IF c.tk.out.status = "ok" /\ c.tk.out.failed = 0
  THEN [c EXCEPT !.tk = Send(c.tk, "reorderFetch", GetCart)]
  ELSE Resync(c)

\* reorderItems after the GET /cart of the try block (either branch).
AfterReorderFetch(c) ==
  IF c.tk.out.status = "ok"
  THEN [c EXCEPT !.st.cart = c.tk.out.cart, !.st.isSyncing = FALSE,
                 !.tk = Finish(c.tk, "ok")]
  ELSE Resync(c)

\* AfterResync leaving the busy flag set when the fallback re-fetch failed.
AfterResyncStaysBusy(c) ==
  IF c.tk.out.status = "ok"
  THEN [c EXCEPT !.st.cart = c.tk.out.cart, !.st.isSyncing = FALSE,
                 !.tk = Finish(c.tk, "caught")]
  ELSE [c EXCEPT !.tk = Finish(c.tk, "threw")]


\* reorderItems after the GET /cart of the catch block.
AfterResync(c) ==
  IF c.tk.out.status = "ok"
  THEN [c EXCEPT !.st.cart = c.tk.out.cart, !.st.isSyncing = FALSE,
                 !.tk = Finish(c.tk, "caught")]
  ELSE [c EXCEPT !.st.isSyncing = FALSE, !.tk = Finish(c.tk, "threw")]

\* toggleMode from setIsSyncing(true) on, with the cart of its closure.
ToggleBody(c, mode) ==
  LET found == {x \in toggleClosure.cart.rates : x.method_id = MethodOf(mode)} IN
  IF found # {}
  THEN [c EXCEPT !.st.isSyncing = TRUE,
                 !.tk = Send(c.tk, "selectRate",
                   [NoReq EXCEPT !.method = "POST",
                                 !.path = "/cart/select-shipping-rate",
                                 !.rate_id = (CHOOSE x \in found : TRUE).rate_id])]
  ELSE [c EXCEPT !.st.isSyncing = FALSE, !.tk = Finish(c.tk, "noop")]

\* AfterSelectRate leaving the busy flag set when the request failed.
AfterSelectRateStaysBusy(c) ==
  IF c.tk.out.status = "ok"
  THEN [c EXCEPT !.tk = Send(c.tk, "toggleFetch", GetCart)]
  ELSE [c EXCEPT !.tk = Finish(c.tk, "caught")]

\* toggleMode after updateShippingMethod settled.
AfterSelectRate(c) ==
  IF c.tk.out.status = "ok"
  THEN [c EXCEPT !.tk = Send(c.tk, "toggleFetch", GetCart)]
  ELSE [c EXCEPT !.st.isSyncing = FALSE, !.tk = Finish(c.tk, "caught")]

AfterToggleFetch(c) ==
  IF c.tk.out.status = "ok"
  THEN [c EXCEPT !.st.cart = c.tk.out.cart, !.st.isSyncing = FALSE,
                 !.tk = Finish(c.tk, "ok")]
  ELSE [c EXCEPT !.st.isSyncing = FALSE, !.tk = Finish(c.tk, "caught")]

\* refreshCart up to its await.
refreshCart(c) ==
  [c EXCEPT !.st.cart = NoCart, !.st.cartToken = NoToken,
            !.tk = Send(c.tk, "refreshFetch", GetCart)]

AfterRefreshFetch(c) ==
  IF c.tk.out.status = "ok"
  THEN [c EXCEPT !.st.cart = c.tk.out.cart, !.tk = Finish(c.tk, "ok")]
  ELSE [c EXCEPT !.tk = Finish(c.tk, "threw")]

\* handlePlaceOrder after the checkout request settled: createOrder awaits
\* saveCartToken(null) on success; the finally block calls refreshCart.
AfterCreateOrder(c) ==
  IF c.tk.out.status = "ok"
  THEN refreshCart([c EXCEPT !.sg.token = NoToken, !.st.cartToken = NoToken])
  ELSE refreshCart(c)

\* The continuation of a suspended task.
Resume(c) ==
  CASE c.tk.pc = "loadCartToken"   -> AfterLoadCartToken(c)
    [] c.tk.pc = "initialFetch"    -> AfterInitialFetch(c)
    [] c.tk.pc = "setOrigin"       -> performBasketUpdate(c)
    [] c.tk.pc = "mutation"        -> AfterMutation(c)
    [] c.tk.pc = "refetch"         -> AfterRefetch(c)
    [] c.tk.pc = "clearForAdd"     -> AfterClearForAdd(c)
    [] c.tk.pc = "saveOrigin"      -> performBasketUpdate(c)
    [] c.tk.pc = "clearForReorder" -> AfterClearForReorder(c)
    [] c.tk.pc = "emptyFetch"      -> AfterReorderFetch(c)
    [] c.tk.pc = "batch"           -> AfterBatch(c)
    [] c.tk.pc = "reorderFetch"    -> AfterReorderFetch(c)
    [] c.tk.pc = "resync"          -> AfterResync(c)
    [] c.tk.pc = "selectRate"      -> AfterSelectRate(c)
    [] c.tk.pc = "toggleFetch"     -> AfterToggleFetch(c)
    [] c.tk.pc = "createOrder"     -> AfterCreateOrder(c)
    [] c.tk.pc = "refreshFetch"    -> AfterRefreshFetch(c)

StoragePcs == {"loadCartToken", "setOrigin", "saveOrigin"}

\* ----------------------------------------------------------------- actions
Busy(t) == tasks[t].pc # "idle"
FreeSlots == {t \in 1..limits.slots : ~Busy(t)}
Slot == CHOOSE t \in FreeSlots : \A u \in FreeSlots : t <= u

Ctx(tk) == [tk |-> tk, st |-> state, sg |-> storage]

\* The step's result; a task that returns leaves its slot and is shown in
\* `last` in the state this step leads to.
Apply(t, c) ==
  /\ state' = c.st
  /\ storage' = c.sg
  /\ IF c.tk.pc = "done"
     THEN tasks' = [tasks EXCEPT ![t] = IdleTask] /\ last' = c.tk
     ELSE tasks' = [tasks EXCEPT ![t] = c.tk] /\ last' = IdleTask

itemCount(cart) == cart.items_count

getItemQuantity(cart, itemId) ==
  LET found == {i \in cart.items : i.id = itemId}
  IN IF found = {} THEN 0 ELSE (CHOOSE i \in found : TRUE).quantity

\* What the consumers of the context pass to updateBasket: OrderScreen adds
\* one of a product of the active business's menu; BasketModal's
\* QuantitySelector changes a line item of the rendered cart by one; a
\* consumer removes a line item by passing quantity 0.
UpdateInputs ==
  {<<p, getItemQuantity(rendered.cart, p) + 1>> :
       p \in {x \in Products : BusinessOf(x) = activeBusiness}}
  \cup {<<i.id, i.quantity + 1>> : i \in rendered.cart.items}
  \cup {<<i.id, i.quantity - 1>> : i \in rendered.cart.items}
  \cup {<<i.id, 0>> : i \in rendered.cart.items}

Gesture == ops < limits.ops /\ activeBusiness # NoBusiness
           /\ ~rendered.conflictModalVisible /\ refs.mounted

\* A re-render: callbacks are re-created over the current state and the
\* effects copy cart and cartToken into their refs.
RenderNow(st) ==
  /\ rendered' = Snapshot(st)
  /\ refs' = [refs EXCEPT !.cartRef = st.cart, !.cartTokenRef = st.cartToken]
  /\ toggleClosure' = IF st.isSyncing # toggleClosure.isSyncing
                      THEN [isSyncing |-> st.isSyncing, cart |-> st.cart]
                      ELSE toggleClosure

\* A state update has scheduled a render that has not run yet; an unmounted
\* provider renders no more.
RenderPending ==
  /\ refs.mounted
  /\ \/ rendered # Snapshot(state)
     \/ refs.cartRef # state.cart
     \/ refs.cartTokenRef # state.cartToken

Render ==
  /\ UNCHANGED <<limits, checkout>>
  /\ RenderPending
  /\ RenderNow(state)
  /\ last' = IdleTask /\ call' = NoCall
  /\ UNCHANGED <<server, storage, activeBusiness, state, originLoading,
                 tasks, ops, fails>>

\* loadOrigin after AsyncStorage.getItem('@Cart:originBusiness').
LoadOrigin ==
  /\ UNCHANGED <<limits, checkout>>
  /\ ~RenderPending
  /\ originLoading
  /\ originLoading' = FALSE
  /\ state' = IF storage.origin # NoBusiness
              THEN [state EXCEPT !.originBusiness = storage.origin]
              ELSE state
  /\ last' = IdleTask /\ call' = NoCall
  /\ UNCHANGED <<server, storage, activeBusiness, refs, rendered,
                 toggleClosure, tasks, ops, fails>>

\* DirectoryScreen.handleBusinessSelect -> setBusiness.  The providers render
\* with the new business; the initial cart sync runs again while the cart has
\* not been initialised (its effect depends on getWooCommerceCart).
SelectBusiness(b) ==
  /\ UNCHANGED <<limits, checkout>>
  /\ b # activeBusiness
  /\ ~rendered.conflictModalVisible /\ refs.mounted
  /\ activeBusiness' = b
  /\ RenderNow(state)
  /\ IF state.hasInitializedCart
     THEN UNCHANGED tasks
     ELSE /\ FreeSlots # {}
          /\ tasks' = [tasks EXCEPT ![Slot] = InitTask]
  /\ last' = IdleTask /\ call' = NoCall
  /\ UNCHANGED <<server, storage, state, originLoading, ops, fails>>

\* updateBasket's conflict branch with the recorded origin dropped as well.
RaiseConflictDropsOrigin(st, itemId, newQuantity) ==
  [st EXCEPT !.pendingItem = [id |-> itemId, qty |-> newQuantity],
             !.conflictModalVisible = TRUE,
             !.originBusiness = NoBusiness]

\* updateBasket's conflict branch: setPendingItem, setConflictModalVisible.
RaiseConflict(st, itemId, newQuantity) ==
  [st EXCEPT !.pendingItem = [id |-> itemId, qty |-> newQuantity],
             !.conflictModalVisible = TRUE]

\* updateBasket(itemId, newQuantity) up to its first await.
UpdateBasket(itemId, newQuantity) ==
  /\ UNCHANGED <<limits, checkout>>
  /\ Gesture
  /\ UNCHANGED <<server, activeBusiness, refs, rendered, toggleClosure,
                 originLoading, fails>>
  /\ LET mk(did) == [NoCall EXCEPT !.op = "updateBasket", !.id = itemId,
                                   !.qty = newQuantity, !.did = did]
         tk == [NewTask("updateBasket") EXCEPT !.itemId = itemId,
                                               !.qty = newQuantity,
                                               !.biz = activeBusiness,
                                               !.start = StartOf(rendered.cart),
                                               !.before = Before(state)]
     IN
     IF rendered.isSyncing
     THEN /\ call' = mk("rejected")
          /\ UNCHANGED <<state, storage, tasks>> /\ last' = IdleTask
     ELSE IF /\ newQuantity > 0 /\ itemCount(rendered.cart) > 0
             /\ rendered.originBusiness # NoBusiness
             /\ rendered.originBusiness # activeBusiness
     THEN /\ call' = mk("conflict")
          /\ state' = RaiseConflict(state, itemId, newQuantity)
          /\ UNCHANGED <<storage, tasks>> /\ last' = IdleTask
     ELSE /\ FreeSlots # {}
          /\ call' = mk("started")
          /\ IF newQuantity > 0 /\ itemCount(rendered.cart) = 0
                /\ activeBusiness # NoBusiness
             THEN Apply(Slot, [tk |-> [tk EXCEPT !.pc = "setOrigin"],
                               st |-> [state EXCEPT !.originBusiness = activeBusiness],
                               sg |-> [storage EXCEPT !.origin = activeBusiness]])
             ELSE Apply(Slot, performBasketUpdate(Ctx(tk)))
  /\ ops' = IF call'.did = "started" THEN ops + 1 ELSE ops

\* The conflict modal's onConfirm.
HandleClearAndAdd ==
  /\ UNCHANGED <<limits, checkout>>
  /\ ops < limits.ops /\ refs.mounted
  /\ rendered.conflictModalVisible
  /\ ops' = ops + 1
  /\ UNCHANGED <<server, activeBusiness, refs, rendered, toggleClosure,
                 originLoading, fails>>
  /\ LET mk(did) == [NoCall EXCEPT !.op = "handleClearAndAdd",
                                   !.id = rendered.pendingItem.id,
                                   !.qty = rendered.pendingItem.qty, !.did = did]
         tk == [NewTask("handleClearAndAdd") EXCEPT
                  !.itemId = rendered.pendingItem.id,
                  !.qty = rendered.pendingItem.qty,
                  !.biz = activeBusiness,
                  !.before = Before(state)]
     IN
     IF rendered.pendingItem = NoItem
     THEN /\ call' = mk("rejected")
          /\ UNCHANGED <<state, storage, tasks>> /\ last' = IdleTask
     ELSE /\ FreeSlots # {}
          /\ call' = mk("started")
          /\ Apply(Slot, ClearAndAddBody(
                [tk |-> tk, sg |-> storage,
                 st |-> [state EXCEPT !.pendingItem = NoItem,
                                      !.conflictModalVisible = FALSE]]))

\* onCancel with the pending item left in place.
onCancelKeepsPending(st) ==
  [st EXCEPT !.conflictModalVisible = FALSE]

\* The conflict modal's onCancel: setConflictModalVisible(false),
\* setPendingItem(null).
onCancel(st) ==
  [st EXCEPT !.pendingItem = NoItem, !.conflictModalVisible = FALSE]

\* The conflict modal's "Keep Existing" button.
KeepExisting ==
  /\ UNCHANGED <<limits, checkout>>
  /\ ops < limits.ops /\ refs.mounted
  /\ rendered.conflictModalVisible
  /\ ops' = ops + 1
  /\ call' = [NoCall EXCEPT !.op = "onCancel", !.did = "cancelled"]
  /\ state' = onCancel(state)
  /\ last' = IdleTask
  /\ UNCHANGED <<server, storage, activeBusiness, refs, rendered,
                 toggleClosure, originLoading, tasks, fails>>

\* The line items of an earlier order, as ReorderScreen / OrderDetailModal pass
\* them.  A line of MaxQty + 1 units is more than the remote cart accepts.
OrderLines ==
  { <<>>,
    <<[product_id |-> 1, quantity |-> 1]>>,
    <<[product_id |-> 1, quantity |-> 1], [product_id |-> 2, quantity |-> 1]>>,
    <<[product_id |-> 1, quantity |-> 1], [product_id |-> 2, quantity |-> MaxQty + 1]>> }

\* reorderItems(items) up to its first await.
ReorderItems(items) ==
  /\ UNCHANGED <<limits, checkout>>
  /\ Gesture
  /\ ops' = IF rendered.isSyncing THEN ops ELSE ops + 1
  /\ UNCHANGED <<server, activeBusiness, refs, rendered, toggleClosure,
                 originLoading, fails>>
  /\ LET mk(did) == [NoCall EXCEPT !.op = "reorderItems", !.items = items,
                                   !.did = did]
         tk == [NewTask("reorderItems") EXCEPT !.items = items,
                                               !.start = StartOf(rendered.cart),
                                               !.before = Before(state)]
     IN
     IF rendered.isSyncing
     THEN /\ call' = mk("rejected")
          /\ UNCHANGED <<state, storage, tasks>> /\ last' = IdleTask
     ELSE /\ FreeSlots # {}
          /\ call' = mk("started")
          /\ Apply(Slot, ReorderBody(Ctx(tk)))

\* DeliveryCollectionToggle.handleToggle -> toggleMode(mode) up to its first
\* await; the toggle calls it only for a mode other than the rendered one.
ToggleMode(mode) ==
  /\ UNCHANGED <<limits, checkout>>
  /\ Gesture
  /\ (mode = "delivery") # rendered.isDelivery
  /\ ops' = ops + 1
  /\ UNCHANGED <<server, activeBusiness, refs, rendered, toggleClosure,
                 originLoading, fails>>
  /\ LET mk(did) == [NoCall EXCEPT !.op = "toggleMode", !.mode = mode,
                                   !.did = did]
         st1 == [state EXCEPT !.isDelivery = (mode = "delivery")]
     IN
     IF toggleClosure.isSyncing
     THEN /\ call' = mk("rejected")
          /\ state' = st1
          /\ UNCHANGED <<storage, tasks>> /\ last' = IdleTask
     ELSE /\ FreeSlots # {}
          /\ call' = mk("started")
          /\ Apply(Slot, ToggleBody(
                [tk |-> [NewTask("toggleMode") EXCEPT
                           !.start = StartOf(rendered.cart),
                           !.before = Before(state)],
                 st |-> st1, sg |-> storage], mode))

\* CheckoutScreen.handlePlaceOrder up to its first await (payment method and
\* addresses chosen).
PlaceOrder ==
  /\ UNCHANGED <<limits, checkout>>
  /\ Gesture
  /\ rendered.cart.items # {}
  /\ FreeSlots # {}
  /\ ops' = ops + 1
  /\ call' = [NoCall EXCEPT !.op = "handlePlaceOrder", !.did = "started"]
  /\ Apply(Slot, [Ctx(NewTask("handlePlaceOrder")) EXCEPT
                    !.tk = Send(@, "createOrder",
                       [NoReq EXCEPT !.method = "POST", !.path = "/checkout"])])
  /\ UNCHANGED <<server, activeBusiness, refs, rendered, toggleClosure,
                 originLoading, fails>>

\* The process is killed and started again: AsyncStorage and the remote
\* service keep their state, everything in memory starts over.
Restart ==
  /\ UNCHANGED <<limits, checkout>>
  /\ ops < limits.ops
  /\ ops' = ops + 1
  /\ call' = [NoCall EXCEPT !.op = "restart", !.did = "restarted"]
  /\ activeBusiness' = NoBusiness
  /\ state' = InitialState
  /\ refs' = InitialRefs
  /\ rendered' = Snapshot(InitialState)
  /\ toggleClosure' = [isSyncing |-> FALSE, cart |-> NoCart]
  /\ originLoading' = TRUE
  /\ tasks' = [t \in TaskIds |-> IF t = 1 THEN InitTask ELSE IdleTask]
  /\ last' = IdleTask
  /\ UNCHANGED <<server, storage, fails>>

\* The basket provider unmounts (its cleanup sets mounted.current = false);
\* suspended functions go on when their requests settle, and the setters they
\* call are recorded in `state` as before.
Unmount ==
  /\ UNCHANGED <<limits, checkout>>
  /\ ops < limits.ops /\ refs.mounted
  /\ ops' = ops + 1
  /\ call' = [NoCall EXCEPT !.op = "unmount", !.did = "unmounted"]
  /\ refs' = [refs EXCEPT !.mounted = FALSE]
  /\ last' = IdleTask
  /\ UNCHANGED <<server, storage, activeBusiness, state, rendered,
                 toggleClosure, originLoading, tasks, fails>>

\* An AsyncStorage call of task t resolves.  A render scheduled by an earlier
\* state update runs before a completion that arrives later is handled; only
\* a gesture that was already queued can be handled ahead of it.
StorageDone(t) ==
  /\ UNCHANGED <<limits, checkout>>
  /\ ~RenderPending
  /\ tasks[t].pc \in StoragePcs
  /\ Apply(t, Resume(Ctx(tasks[t])))
  /\ call' = NoCall
  /\ UNCHANGED <<server, activeBusiness, refs, rendered, toggleClosure,
                 originLoading, ops, fails>>

InFlight(t) == tasks[t].req # NoReq

\* The request of task t is lost: fetch rejects and the caller continues.
RequestFailsStep(t) ==
  /\ ~RenderPending
  /\ InFlight(t)
  /\ fails < MaxFails
  /\ fails' = fails + 1
  /\ Apply(t, Resume(Ctx([tasks[t] EXCEPT !.out = [NoOut EXCEPT !.status = "netfail"]])))
  /\ call' = NoCall
  /\ UNCHANGED <<server, activeBusiness, refs, rendered, toggleClosure,
                 originLoading, ops>>

\* A lost request seen by the basket provider alone.
RequestFails(t) == RequestFailsStep(t) /\ UNCHANGED <<limits, checkout>>

\* The remote service handles the request of task t in the session of its
\* Cart-Token, or in a new session when it carries none, and the response
\* arrives: request() saves a cart-token header other than the token sent,
\* then the caller continues; after a token save it continues in the same
\* step only when no body is read (a DELETE that succeeded).
RespondStep(t) ==
  /\ ~RenderPending
  /\ InFlight(t)
  /\ LET r == tasks[t].req
         tok == IF r.token = NoToken THEN server.issued + 1 ELSE r.token
     IN /\ tok \in Tokens
        /\ \E h \in {Handle(IF r.token = NoToken THEN EmptySession
                             ELSE server.sessions[tok], r)} :
           LET o == [status |-> IF h.ok THEN "ok" ELSE "err", token |-> tok,
                     cart |-> CartView(h.s), failed |-> h.failed]
               save == tok # r.token
           IN \E c \in {[tk |-> [tasks[t] EXCEPT !.out = o],
                          st |-> IF save THEN [state EXCEPT !.cartToken = tok]
                                 ELSE state,
                          sg |-> IF save THEN [storage EXCEPT !.token = tok]
                                 ELSE storage]} :
              /\ server' = [sessions |-> [server.sessions EXCEPT ![tok] = h.s],
                            issued |-> IF r.token = NoToken THEN tok
                                       ELSE server.issued]
              /\ IF save /\ ~(r.method = "DELETE" /\ h.ok)
                 THEN /\ state' = c.st
                      /\ storage' = c.sg
                      /\ tasks' = [tasks EXCEPT ![t] = [c.tk EXCEPT !.req = NoReq]]
                      /\ last' = IdleTask
                 ELSE Apply(t, Resume(c))
  /\ call' = NoCall
  /\ UNCHANGED <<activeBusiness, refs, rendered, toggleClosure,
                 originLoading, ops, fails>>

\* A response seen by the basket provider alone.
Respond(t) == RespondStep(t) /\ UNCHANGED <<limits, checkout>>

\* The response body of task t has been read (await response.json()) after a
\* token save, and the caller continues.  The render scheduled by the token
\* save may or may not have run by then: that depends on how long the read
\* takes.
ResponseReadStep(t) ==
  /\ tasks[t].req = NoReq /\ tasks[t].out # NoOut
  /\ Apply(t, Resume(Ctx(tasks[t])))
  /\ call' = NoCall
  /\ UNCHANGED <<server, activeBusiness, refs, rendered, toggleClosure,
                 originLoading, ops, fails>>

\* A response body read seen by the basket provider alone.
ResponseRead(t) == ResponseReadStep(t) /\ UNCHANGED <<limits, checkout>>

Next ==
  \/ Render
  \/ LoadOrigin
  \/ \E b \in Businesses : SelectBusiness(b)
  \/ \E in \in UpdateInputs : UpdateBasket(in[1], in[2])
  \/ HandleClearAndAdd
  \/ KeepExisting
  \/ \E items \in OrderLines : ReorderItems(items)
  \/ \E mode \in {"delivery", "collection"} : ToggleMode(mode)
  \/ PlaceOrder
  \/ Restart
  \/ Unmount
  \/ \E t \in TaskIds : StorageDone(t)
  \/ \E t \in TaskIds : RequestFails(t)
  \/ \E t \in TaskIds : Respond(t)
  \/ \E t \in TaskIds : ResponseRead(t)

Spec == Init /\ [][Next]_vars

SpecRace == InitRace /\ [][Next]_vars

\* --------------------------------------------- getCartUpdateEndpoint alone
\* The quantities and the carts getCartUpdateEndpoint is applied to.
Quantities == (0 - 1)..(MaxQty + 1)

Carts ==
  {NoCart} \cup {CartView([items |-> f, sel |-> "flat_rate"]) :
                    f \in [Products -> 0..MaxQty]}

InitEndpoint ==
  /\ server = [sessions |-> [t \in Tokens |-> EmptySession], issued |-> 0]
  /\ storage = [token |-> NoToken, origin |-> NoBusiness]
  /\ activeBusiness = NoBusiness
  /\ state = InitialState
  /\ refs \in [cartRef : Carts, cartTokenRef : {NoToken}, mounted : {TRUE}]
  /\ rendered = Snapshot(InitialState)
  /\ toggleClosure = [isSyncing |-> FALSE, cart |-> NoCart]
  /\ originLoading = FALSE
  /\ tasks = [t \in TaskIds |-> IdleTask]
  /\ last = IdleTask
  /\ call = NoCall
  /\ ops = 0
  /\ fails = 0
  /\ checkout = InitialCheckout
  /\ limits = [slots |-> 0, ops |-> 1]

\* getCartUpdateEndpoint(itemId, newQuantity, cartRef.current); the request it
\* describes is shown in last.req.
EndpointFor(itemId, newQuantity) ==
  /\ ops < limits.ops
  /\ ops' = ops + 1
  /\ call' = [NoCall EXCEPT !.op = "getCartUpdateEndpoint", !.id = itemId,
                            !.qty = newQuantity]
  /\ last' = [NewTask("getCartUpdateEndpoint") EXCEPT
                !.itemId = itemId, !.qty = newQuantity,
                !.req = getCartUpdateEndpoint(itemId, newQuantity, refs.cartRef)]
  /\ UNCHANGED <<server, storage, activeBusiness, state, refs, rendered,
                 toggleClosure, originLoading, tasks, limits, fails, checkout>>

NextEndpoint == \E p \in Products : \E q \in Quantities : EndpointFor(p, q)

SpecEndpoint == InitEndpoint /\ [][NextEndpoint]_vars


\* ------------------------------------------------- cartTokenManager alone
\* The token manager's functions called one after the other by one caller;
\* '@Cart:token' may hold a token left by an earlier run.  A task's `token` is
\* the argument of saveCartToken or the value loadCartToken returned, `prev`
\* the manager function that returned before it was called.
InitTokenStore ==
  /\ server = [sessions |-> [t \in Tokens |-> EmptySession], issued |-> 0]
  /\ storage \in [token : Tokens \cup {NoToken}, origin : {NoBusiness}]
  /\ activeBusiness = NoBusiness
  /\ state = InitialState
  /\ refs = InitialRefs
  /\ rendered = Snapshot(InitialState)
  /\ toggleClosure = [isSyncing |-> FALSE, cart |-> NoCart]
  /\ originLoading = FALSE
  /\ tasks = [t \in TaskIds |-> IdleTask]
  /\ last = IdleTask
  /\ call = NoCall
  /\ ops = 0
  /\ fails = 0
  /\ checkout = InitialCheckout
  /\ limits = [slots |-> 1, ops |-> MaxOps]

\* saveCartToken keeping the persisted entry when the token is null.
saveCartTokenKeepsEntry(c) ==
  [c EXCEPT !.sg.token = IF c.tk.token = NoToken THEN @ ELSE c.tk.token,
            !.st.cartToken = c.tk.token,
            !.tk = Finish(c.tk, "ok")]

\* saveCartToken after AsyncStorage.setItem / removeItem: _setCartToken(token).
saveCartToken(c) ==
  [c EXCEPT !.sg.token = c.tk.token, !.st.cartToken = c.tk.token,
            !.tk = Finish(c.tk, "ok")]

\* loadCartToken after AsyncStorage.getItem: _setCartToken(token); return token.
loadCartToken(c) ==
  [c EXCEPT !.st.cartToken = c.sg.token,
            !.tk = Finish([c.tk EXCEPT !.token = c.sg.token], "ok")]

\* getCartToken: the synchronous read of the ref.
getCartTokenValue == refs.cartTokenRef

\* saveCartToken(token) up to its await.
SaveCartToken(token) ==
  /\ ops < limits.ops /\ ~Busy(1)
  /\ ops' = ops + 1
  /\ call' = [NoCall EXCEPT !.op = "saveCartToken", !.did = "started"]
  /\ tasks' = [tasks EXCEPT ![1] =
                 [NewTask("saveCartToken") EXCEPT
                    !.pc = IF token # NoToken THEN "setItem" ELSE "removeItem",
                    !.token = token, !.prev = last.op]]
  /\ UNCHANGED <<server, storage, activeBusiness, state, refs, rendered,
                 toggleClosure, originLoading, last, limits, fails, checkout>>

\* loadCartToken() up to its await.
LoadCartToken ==
  /\ ops < limits.ops /\ ~Busy(1)
  /\ ops' = ops + 1
  /\ call' = [NoCall EXCEPT !.op = "loadCartToken", !.did = "started"]
  /\ tasks' = [tasks EXCEPT ![1] =
                 [NewTask("loadCartToken") EXCEPT !.pc = "getItem",
                                                  !.prev = last.op]]
  /\ UNCHANGED <<server, storage, activeBusiness, state, refs, rendered,
                 toggleClosure, originLoading, last, limits, fails, checkout>>

\* The AsyncStorage call of the manager function resolves; a render scheduled
\* by an earlier _setCartToken has run by then.
TokenStoreDone ==
  /\ ~RenderPending
  /\ tasks[1].pc \in {"setItem", "removeItem", "getItem"}
  /\ Apply(1, IF tasks[1].pc = "getItem" THEN loadCartToken(Ctx(tasks[1]))
              ELSE saveCartToken(Ctx(tasks[1])))
  /\ call' = NoCall
  /\ UNCHANGED <<server, activeBusiness, refs, rendered, toggleClosure,
                 originLoading, limits, ops, fails, checkout>>

\* The render after _setCartToken: the effect copies cartToken into the ref.
TokenEffect ==
  /\ RenderPending
  /\ RenderNow(state)
  /\ call' = NoCall
  /\ UNCHANGED <<server, storage, activeBusiness, state, originLoading,
                 tasks, last, limits, ops, fails, checkout>>

NextTokenStore ==
  \/ \E token \in Tokens \cup {NoToken} : SaveCartToken(token)
  \/ LoadCartToken
  \/ TokenStoreDone
  \/ TokenEffect

SpecTokenStore == InitTokenStore /\ [][NextTokenStore]_vars


\* ---------------------------------------------------------------- progress
\* An AsyncStorage call resolves, a request is answered or lost, a response
\* body is read: every await of a suspended function settles.
Settle ==
  \E t \in TaskIds :
     StorageDone(t) \/ Respond(t) \/ RequestFails(t) \/ ResponseRead(t)

\* One run of a few gestures, one function at a time.
InitLive == Start /\ limits = [slots |-> 1, ops |-> LiveOps]

\* Every scheduled render runs and every await settles; gestures are under no
\* obligation.
SpecLive == InitLive /\ [][Next]_vars /\ WF_vars(Render) /\ WF_vars(Settle)


\* ---------------------------------------------------- CheckoutScreen alone
\* What createOrder can come back with: it throws, or it returns an order that
\* is pending with a payment redirect_url, pending without one, processing,
\* completed, or failed.
OrderOutcomes ==
  {"threw", "pending_redirect", "pending", "processing", "completed", "failed"}

\* Payment gateway ids; none selected is "".
PaymentMethods == {"cod", "stripe"}

\* isCartValid: a cart is loaded and has items (a cart the service returns
\* carries totals.total_price).
isCartValid(cart) == cart.present /\ cart.items # {}

\* The guard of handlePlaceOrder without its shipping address condition.
CanPlaceOrderIgnoresShipping(cart, isDelivery, co) ==
  /\ isCartValid(cart)
  /\ co.selectedPaymentMethod # ""
  /\ co.selectedBillingAddress

\* The guard of handlePlaceOrder, negated: the order may be placed.
CanPlaceOrder(cart, isDelivery, co) ==
  /\ isCartValid(cart)
  /\ co.selectedPaymentMethod # ""
  /\ co.selectedBillingAddress
  /\ (isDelivery => co.selectedShippingAddress)

\* The screen is open on a session of the remote service whose token is held
\* and persisted; the cart, the mode, the stage, the payment method the mount
\* effect selected and the addresses the basket context selected are the
\* values handlePlaceOrder closes over, drawn from bounded sets.
InitCheckout ==
  \E f \in [Products -> 0..MaxQty], loaded \in BOOLEAN, d \in BOOLEAN :
    LET s == [items |-> f,
              sel |-> MethodOf(IF d THEN "delivery" ELSE "collection")]
    IN /\ server = [sessions |-> [t \in Tokens |-> IF t = 1 THEN s
                                                   ELSE EmptySession],
                    issued |-> 1]
       /\ storage = [token |-> 1, origin |-> NoBusiness]
       /\ activeBusiness = 1
       /\ state = [InitialState EXCEPT
                     !.cart = IF loaded THEN CartView(s) ELSE NoCart,
                     !.isDelivery = d, !.cartToken = 1,
                     !.hasInitializedCart = TRUE]
       /\ refs = [cartRef |-> state.cart, cartTokenRef |-> 1, mounted |-> TRUE]
       /\ rendered = Snapshot(state)
       /\ toggleClosure = [isSyncing |-> FALSE, cart |-> NoCart]
       /\ originLoading = FALSE
       /\ tasks = [t \in TaskIds |-> IdleTask]
       /\ last = IdleTask
       /\ call = NoCall
       /\ limits = [slots |-> MaxTasks, ops |-> MaxOps]
       /\ ops = 0
       /\ fails = 0
       /\ checkout \in {[InitialCheckout EXCEPT
                           !.currentStage = g, !.selectedPaymentMethod = m,
                           !.selectedBillingAddress = b,
                           !.selectedShippingAddress = a] :
                        g \in {"REVIEW", "PAYMENT"},
                        m \in PaymentMethods \cup {""},
                        b \in BOOLEAN, a \in BOOLEAN}

\* renderStageContent shows the stage's buttons when the cart is valid or an
\* order was made, and no payment modal covers them.
StageShown ==
  /\ refs.mounted
  /\ ops < limits.ops
  /\ ~checkout.paymentWebView
  /\ isCartValid(rendered.cart) \/ checkout.finalOrder

\* handleNext from "Continue to Payment", the button of the REVIEW stage
\* (disabled while an address is missing).
HandleNext ==
  /\ StageShown
  /\ checkout.currentStage = "REVIEW"
  /\ checkout.selectedBillingAddress
  /\ rendered.isDelivery => checkout.selectedShippingAddress
  /\ ops' = ops + 1
  /\ call' = [NoCall EXCEPT !.op = "handleNext", !.did = "PAYMENT"]
  /\ checkout' = [checkout EXCEPT !.error = FALSE, !.currentStage = "PAYMENT"]
  /\ last' = IdleTask
  /\ UNCHANGED <<server, storage, activeBusiness, state, refs, rendered,
                 toggleClosure, originLoading, tasks, limits, fails>>

\* handleBack from the Back button of the PAYMENT stage.
HandleBack ==
  /\ StageShown
  /\ checkout.currentStage = "PAYMENT"
  /\ ops' = ops + 1
  /\ call' = [NoCall EXCEPT !.op = "handleBack", !.did = "REVIEW"]
  /\ checkout' = [checkout EXCEPT !.currentStage = "REVIEW"]
  /\ last' = IdleTask
  /\ UNCHANGED <<server, storage, activeBusiness, state, refs, rendered,
                 toggleClosure, originLoading, tasks, limits, fails>>

\* handlePlaceOrder from "Place Order", the button of the PAYMENT stage
\* (disabled while loading or without a payment method), up to its return or
\* its first await.
HandlePlaceOrder ==
  /\ StageShown
  /\ checkout.currentStage = "PAYMENT"
  /\ ~checkout.isLoading /\ checkout.selectedPaymentMethod # ""
  /\ ops' = ops + 1
  /\ IF CanPlaceOrder(rendered.cart, rendered.isDelivery, checkout)
     THEN /\ FreeSlots # {}
          /\ call' = [NoCall EXCEPT !.op = "handlePlaceOrder", !.did = "started"]
          /\ checkout' = [checkout EXCEPT !.isLoading = TRUE, !.error = FALSE]
          /\ Apply(Slot, [Ctx(NewTask("handlePlaceOrder")) EXCEPT
                            !.tk = Send(@, "createOrder",
                               [NoReq EXCEPT !.method = "POST",
                                             !.path = "/checkout"])])
     ELSE /\ call' = [NoCall EXCEPT !.op = "handlePlaceOrder", !.did = "rejected"]
          /\ checkout' = [checkout EXCEPT !.error = TRUE]
          /\ last' = IdleTask
          /\ UNCHANGED <<state, storage, tasks>>
  /\ UNCHANGED <<server, activeBusiness, refs, rendered, toggleClosure,
                 originLoading, limits, fails>>

\* handlePlaceOrder after createOrder settled with outcome o: the payment
\* modal opens, or CONFIRMATION is entered, or the catch block goes back to
\* REVIEW; the finally block releases the loader.
AfterOrder(co, o) ==
  CASE o = "pending_redirect" ->
         [co EXCEPT !.isLoading = FALSE, !.paymentWebView = TRUE]
    [] o \in {"processing", "completed"}
       \/ (o \in {"pending", "failed"} /\ co.selectedPaymentMethod = "cod") ->
         [co EXCEPT !.isLoading = FALSE, !.finalOrder = TRUE,
                    !.currentStage = "CONFIRMATION"]
    [] OTHER ->
         [co EXCEPT !.isLoading = FALSE, !.error = TRUE,
                    !.currentStage = "REVIEW"]

\* The checkout request of task t settles and handlePlaceOrder continues:
\* createOrder returns an order exactly when the remote service accepted the
\* checkout (and emptied the session).  After a token save the function
\* continues once the body is read.
OrderSettles(t, o) ==
  /\ tasks[t].pc = "createOrder"
  /\ RespondStep(t) \/ RequestFailsStep(t) \/ ResponseReadStep(t)
  /\ (o = "threw") <=> (server'.sessions = server.sessions)
  /\ checkout' = IF tasks'[t].pc = "createOrder" THEN checkout
                 ELSE AfterOrder(checkout, o)
  /\ UNCHANGED limits

\* A request of refreshCart settles.
RefreshSettles(t) ==
  /\ tasks[t].pc = "refreshFetch"
  /\ Respond(t) \/ RequestFails(t) \/ ResponseRead(t)

\* handlePaymentCompletion(success), called by the payment modal.
HandlePaymentCompletion(success) ==
  /\ refs.mounted
  /\ ops < limits.ops
  /\ checkout.paymentWebView
  /\ ops' = ops + 1
  /\ call' = [NoCall EXCEPT !.op = "handlePaymentCompletion",
                            !.did = IF success THEN "success" ELSE "failed"]
  /\ IF success
     THEN /\ FreeSlots # {}
          /\ checkout' = [checkout EXCEPT !.paymentWebView = FALSE,
                                          !.isLoading = FALSE,
                                          !.finalOrder = TRUE,
                                          !.currentStage = "CONFIRMATION"]
          /\ Apply(Slot, refreshCart(Ctx(NewTask("refreshCart"))))
     ELSE /\ checkout' = [checkout EXCEPT !.paymentWebView = FALSE,
                                          !.isLoading = FALSE]
          /\ last' = IdleTask
          /\ UNCHANGED <<state, storage, tasks>>
  /\ UNCHANGED <<server, activeBusiness, refs, rendered, toggleClosure,
                 originLoading, limits, fails>>

NextCheckout ==
  \/ Render
  \/ HandleNext
  \/ HandleBack
  \/ HandlePlaceOrder
  \/ \E t \in TaskIds : \E o \in OrderOutcomes : OrderSettles(t, o)
  \/ \E t \in TaskIds : RefreshSettles(t)
  \/ \E success \in BOOLEAN : HandlePaymentCompletion(success)

SpecCheckout == InitCheckout /\ [][NextCheckout]_vars



TypeOK ==
  /\ state.cartToken \in Tokens \cup {NoToken}
  /\ state.originBusiness \in Businesses \cup {NoBusiness}
  /\ ops \in 0..limits.ops
  /\ checkout.currentStage \in {"REVIEW", "PAYMENT", "CONFIRMATION"}
  /\ checkout.selectedPaymentMethod \in PaymentMethods \cup {""}

\* ------------------------------------------------------------------ claims
\* What a GET /cart sent now, with the token the client holds, would return.
FreshCart ==
  CartView(IF state.cartToken = NoToken THEN EmptySession
           ELSE server.sessions[state.cartToken])

\* No asynchronous function is suspended and the last render is current.
Quiescent ==
  /\ \A t \in TaskIds : ~Busy(t)
  /\ ~originLoading
  /\ refs.mounted /\ ~RenderPending

Mutating == {"updateBasket", "handleClearAndAdd", "reorderItems", "toggleMode"}

IsClear(r) == r.method = "DELETE" /\ r.path = "/cart/items"

IsAdd(r, itemId, qty) ==
  /\ r.method = "POST" /\ r.path \in {"/cart/add-item", "/cart/items"}
  /\ r.id = IdString(itemId) /\ r.quantity = qty

\* C1: when an updateBasket whose requests all succeeded has just returned,
\* the local cart equals what a fresh GET /cart returns for the server's cart.
C1_NoDrift ==
  (last.op = "updateBasket" /\ last.result = "ok") => state.cart = FreshCart

C1_Witness ==
  /\ last.op = "updateBasket" /\ last.result = "ok"
  /\ Len(last.reqs) = 2
  /\ state.cart.items_count > 0

\* C2: at most one mutating operation has a request in flight at any time.
C2_SingleInFlight ==
  Cardinality({t \in TaskIds : tasks[t].op \in Mutating /\ InFlight(t)}) <= 1

\* C3: of two updateBasket calls with the same arguments, the second made
\* before the first has completed, only one sends a request.
C3_OneMutation ==
  \A t \in TaskIds : \A u \in TaskIds \ {t} :
     ( /\ tasks[t].op = "updateBasket" /\ tasks[u].op = "updateBasket"
       /\ tasks[t].itemId = tasks[u].itemId /\ tasks[t].qty = tasks[u].qty )
     => ~(tasks[t].reqs # <<>> /\ tasks[u].reqs # <<>>)

\* C4: updateBasket never sends an add for a product of one business to a
\* remote cart that holds a product of another business.
C4_NoSilentMix ==
  \A t \in TaskIds :
     ( /\ tasks[t].op = "updateBasket" /\ tasks[t].pc = "mutation"
       /\ tasks[t].qty > 0 /\ tasks[t].req.token # NoToken )
     => \A p \in Products :
           server.sessions[tasks[t].req.token].items[p] > 0
           => BusinessOf(p) = BusinessOf(tasks[t].itemId)

\* C5: whenever the local cart holds items (and nothing is in progress), an
\* origin business is recorded.
C5_OriginRecorded ==
  (Quiescent /\ itemCount(state.cart) > 0) => state.originBusiness # NoBusiness

\* C6: whenever the local cart holds no items (and nothing is in progress),
\* no origin business is recorded.
C6_OriginCleared ==
  (Quiescent /\ itemCount(state.cart) = 0) => state.originBusiness = NoBusiness

\* C7: an updateBasket call with a quantity above zero, made while idle with a
\* non-empty cart whose origin is not the active business, signals a conflict;
\* the call that signals a conflict records the pending item, shows the modal,
\* starts no request and leaves cart, origin, token and AsyncStorage as they
\* were; while the modal is shown and no function is suspended, only
\* handleClearAndAdd (or a restart of the process) changes any of them.
C7_ConflictFrame ==
  [][ /\ ( /\ call'.op = "updateBasket" /\ call'.qty > 0
           /\ ~rendered.isSyncing
           /\ itemCount(rendered.cart) > 0
           /\ rendered.originBusiness \notin {NoBusiness, activeBusiness} )
         => call'.did = "conflict"
      /\ call'.did = "conflict"
         => /\ state'.pendingItem = [id |-> call'.id, qty |-> call'.qty]
            /\ state'.conflictModalVisible
            /\ tasks' = tasks /\ server' = server /\ storage' = storage
            /\ state'.cart = state.cart
            /\ state'.originBusiness = state.originBusiness
            /\ state'.cartToken = state.cartToken
      /\ ( /\ rendered.conflictModalVisible
           /\ \A t \in TaskIds : ~Busy(t)
           /\ call'.op \notin {"handleClearAndAdd", "restart"} )
         => /\ tasks' = tasks /\ server' = server
            /\ state'.cart = state.cart
            /\ state'.originBusiness = state.originBusiness
            /\ state'.cartToken = state.cartToken ]_vars

C7_Witness ==
  /\ call.op = "updateBasket" /\ call.did = "conflict"
  /\ state.conflictModalVisible /\ state.pendingItem = [id |-> call.id, qty |-> call.qty]
  /\ itemCount(state.cart) > 0
  /\ state.originBusiness \notin {NoBusiness, activeBusiness}

\* C8: handleClearAndAdd sends DELETE /cart/items first, then sets and
\* persists the active business as origin, then sends the pending add with
\* the pending product id and quantity.
C8_ClearOriginAdd ==
  \A t \in TaskIds :
     tasks[t].op = "handleClearAndAdd" =>
       /\ tasks[t].pc # "clearForAdd"
            => Len(tasks[t].reqs) >= 1 /\ IsClear(tasks[t].reqs[1])
       /\ tasks[t].pc \in {"saveOrigin", "mutation"}
            => /\ state.originBusiness = tasks[t].biz
               /\ storage.origin = tasks[t].biz
       /\ tasks[t].pc = "mutation"
            => /\ Len(tasks[t].reqs) = 2
               /\ IsAdd(tasks[t].reqs[2], tasks[t].itemId, tasks[t].qty)

\* C9: the conflict modal's cancel starts no request, leaves cart, origin,
\* token and AsyncStorage as they were and clears the pending item; after it
\* a function starts only by a handler call, and handleClearAndAdd only adds
\* the item its modal shows as pending.
C9_KeepExisting ==
  [][ /\ call'.op = "onCancel"
         => /\ tasks' = tasks /\ server' = server /\ storage' = storage
            /\ state'.cart = state.cart
            /\ state'.originBusiness = state.originBusiness
            /\ state'.cartToken = state.cartToken
            /\ state'.pendingItem = NoItem
            /\ ~state'.conflictModalVisible
      /\ \A t \in TaskIds :
            ( /\ ~Busy(t) /\ tasks'[t].pc # "idle"
              /\ tasks'[t].op # "initializeCart" )
            => call'.did = "started"
      /\ (call'.op = "handleClearAndAdd" /\ call'.did = "started")
            => /\ rendered.conflictModalVisible
               /\ rendered.pendingItem = [id |-> call'.id, qty |-> call'.qty] ]_vars

C9_Witness ==
  /\ call.op = "onCancel"
  /\ state.pendingItem = NoItem /\ ~state.conflictModalVisible
  /\ rendered.pendingItem # NoItem
  /\ itemCount(state.cart) > 0

\* The batch request reorderItems sends for the line items.
IsBatchOf(r, items) ==
  /\ r.method = "POST" /\ r.path = "/batch"
  /\ Len(r.requests) = Len(items)
  /\ \A i \in 1..Len(items) :
        /\ r.requests[i].method = "POST"
        /\ r.requests[i].path = "/wc/store/v1/cart/add-item"
        /\ r.requests[i].id = items[i].product_id
        /\ r.requests[i].quantity = items[i].quantity

ReorderSucceeded ==
  last.op = "reorderItems" /\ Len(last.items) >= 1 /\ last.result = "ok"

\* C10 as stated: a successful reorderItems of one or more line items has
\* sent exactly DELETE /cart/items, POST /batch, GET /cart.
C10_ClearBatchFetch ==
  ReorderSucceeded =>
    /\ Len(last.reqs) = 3
    /\ IsClear(last.reqs[1])
    /\ IsBatchOf(last.reqs[2], last.items)
    /\ last.reqs[3].method = "GET" /\ last.reqs[3].path = "/cart"

\* C10: a successful reorderItems of one or more line items has sent
\* DELETE /cart/items exactly when it held a cart token, then one POST /batch
\* with one add-item sub-request per line item, then one GET /cart, and
\* nothing else.
C10_ClearWhenTokenHeld ==
  ReorderSucceeded =>
    LET r == last.reqs
        k == IF r[1].token = NoToken THEN 0 ELSE 1
    IN /\ Len(r) = k + 2
       /\ k = 1 => IsClear(r[1])
       /\ IsBatchOf(r[k + 1], last.items)
       /\ r[k + 2].method = "GET" /\ r[k + 2].path = "/cart"

C10_Witness ==
  /\ ReorderSucceeded
  /\ Len(last.items) = 2
  /\ Len(last.reqs) = 3
  /\ state.cart.items_count = 2

C10_WitnessNoToken ==
  /\ ReorderSucceeded
  /\ Len(last.reqs) = 2

\* reorderItems went through its catch block: the clear, the batch or the
\* re-fetch failed, or a sub-response of the batch had a status >= 400.
ReorderFailed == last.op = "reorderItems" /\ last.result \in {"caught", "threw"}

\* C11: a reorderItems that failed ends with the local cart equal to
\* a fresh GET /cart.
C11_FailedReorderInSync ==
  ReorderFailed => state.cart = FreshCart

\* C12: updateBasket and reorderItems never return normally after one of their
\* requests failed (result "caught": the function's own catch block took the
\* error and the function returned).
C12_FailurePropagated ==
  last.op \in {"updateBasket", "reorderItems"} => last.result # "caught"

EndpointApplied == call.op = "getCartUpdateEndpoint"

\* The line items of the current cart for the product of the call.
EndpointLines == {i \in refs.cartRef.items : i.id = call.id}

FirstAddSucceeded ==
  /\ last.op = "updateBasket" /\ last.qty = 1 /\ last.result = "ok"
  /\ last.start = "empty"
  /\ fails = 0

\* C14: updateBasket(id, 1) from an empty cart sends exactly one
\* POST /cart/add-item with {id: "<id>", quantity: 1}, then exactly one
\* GET /cart, and the local itemCount becomes 1.
C14_AddThenFetch ==
  FirstAddSucceeded =>
    /\ Len(last.reqs) = 2
    /\ last.reqs[1].method = "POST" /\ last.reqs[1].path = "/cart/add-item"
    /\ last.reqs[1].id = IdString(last.itemId) /\ last.reqs[1].quantity = 1
    /\ last.reqs[2].method = "GET" /\ last.reqs[2].path = "/cart"
    /\ itemCount(state.cart) = 1

\* An updateBasket with quantity 0, called with items in the cart, has
\* returned after its requests succeeded.
RemovalSucceeded ==
  /\ last.op = "updateBasket" /\ last.qty = 0 /\ last.result = "ok"
  /\ last.start = "items"

\* C15: updateBasket(id, 0) for a product with a line item sends exactly one
\* DELETE /cart/items/{key} with the key of the line item, then one GET /cart,
\* and the item is absent from the local cart afterwards.
C15_DeleteThenFetch ==
  RemovalSucceeded =>
    /\ Len(last.reqs) = 2
    /\ last.reqs[1].method = "DELETE" /\ last.reqs[1].path = "/cart/items/{key}"
    /\ last.reqs[1].key = KeyOf(last.itemId)
    /\ last.reqs[2].method = "GET" /\ last.reqs[2].path = "/cart"
    /\ \A i \in state.cart.items : i.id # last.itemId

\* The line item removed had quantity 2 (the cart of the last render is still
\* the one from before the call).
C15_Witness ==
  /\ RemovalSucceeded
  /\ \E i \in rendered.cart.items : i.id = last.itemId /\ i.quantity = 2
  /\ \A i \in state.cart.items : i.id # last.itemId

IsSelectRate(r, m) ==
  /\ r.method = "POST" /\ r.path = "/cart/select-shipping-rate"
  /\ r.rate_id = RateId(m)

\* C16: toggleMode('collection'), called in delivery mode with nothing in
\* progress and a current cart that offers a local_pickup rate, sends
\* POST /cart/select-shipping-rate with that rate's rate_id; a toggleMode whose
\* requests succeeded has sent exactly that request and one GET /cart, and the
\* local cart is the cart of that GET.
C16_SelectThenFetch ==
  [][ /\ ( /\ call'.op = "toggleMode" /\ call'.mode = "collection"
           /\ Quiescent /\ state.isDelivery
           /\ \E x \in state.cart.rates : x.method_id = "local_pickup" )
         => \E t \in TaskIds :
               /\ tasks'[t].op = "toggleMode"
               /\ IsSelectRate(tasks'[t].req, "local_pickup")
      /\ (last'.op = "toggleMode" /\ last'.result = "ok")
         => /\ Len(last'.reqs) = 2
            /\ last'.reqs[1].path = "/cart/select-shipping-rate"
            /\ last'.reqs[2].method = "GET" /\ last'.reqs[2].path = "/cart"
            /\ state'.cart = CartView(server'.sessions[last'.reqs[2].token]) ]_vars

\* The step is the arrival of the response to the request of task t.
Responded(t) ==
  /\ InFlight(t) /\ tasks'[t] # tasks[t]
  /\ fails' = fails /\ call'.op # "restart"

\* The cart-token header of that response: the token of the session the
\* request was handled in, a new one when the request carried none.
HeaderOf(t) ==
  IF tasks[t].req.token = NoToken THEN server'.issued ELSE tasks[t].req.token

\* C17: a cart-token header other than the token sent is written to
\* AsyncStorage and is the token the next request carries; a header equal to
\* the token sent leaves the stored token as it was.
C17_TokenRotation ==
  [][ \A t \in TaskIds :
        /\ Responded(t) =>
             /\ HeaderOf(t) # tasks[t].req.token => storage'.token = HeaderOf(t)
             /\ (HeaderOf(t) = tasks[t].req.token /\ tasks[t].pc # "createOrder")
                   => storage'.token = storage.token
        /\ ( /\ tasks[t].req = NoReq /\ tasks[t].out # NoOut
             /\ tasks'[t].req # NoReq )
           => tasks'[t].req.token = tasks[t].out.token ]_vars

\* The response that arrives for task t in this step reports success.
RespondedOk(t) ==
  /\ Responded(t)
  /\ Handle(IF tasks[t].req.token = NoToken THEN EmptySession
            ELSE server.sessions[tasks[t].req.token], tasks[t].req).ok

\* C18: when the checkout request or the clear request (DELETE /cart/items)
\* has succeeded, the persisted token is deleted and the token in memory is
\* null, and a request sent next carries no token.
C18_TokenCleared ==
  [][ \A t \in TaskIds :
        ( /\ RespondedOk(t)
          /\ \/ tasks[t].pc = "createOrder"
             \/ IsClear(tasks[t].req) )
        => /\ storage'.token = NoToken
           /\ state'.cartToken = NoToken
           /\ tasks'[t].req # NoReq => tasks'[t].req.token = NoToken ]_vars

\* Task t continues in this step from loadCartToken, or from a response in
\* whose handling saveCartToken resolved.
TokenJustSet(t) ==
  \/ tasks[t].pc = "loadCartToken" /\ call'.op # "restart"
  \/ RespondedOk(t) /\ tasks[t].pc = "createOrder"
  \/ Responded(t) /\ HeaderOf(t) # tasks[t].req.token
  \/ tasks[t].req = NoReq /\ tasks[t].out # NoOut

\* C19: a request sent by the step that continues right after loadCartToken
\* or saveCartToken resolved carries the token just loaded or saved, never
\* the one held before.
C19_NoStaleToken ==
  [][ \A t \in TaskIds :
        (TokenJustSet(t) /\ tasks'[t].req # NoReq)
        => tasks'[t].req.token = storage'.token ]_vars

\* C20: when initialization finds a token persisted, loadCartToken puts it in
\* memory, the first GET /cart carries it, and the response leaves the
\* persisted token as it was.
C20_SessionSurvivesRestart ==
  [][ \A t \in TaskIds :
        (tasks[t].op = "initializeCart" /\ storage.token # NoToken
           /\ call'.op # "restart")
        => /\ (tasks[t].pc = "loadCartToken" /\ tasks'[t] # tasks[t])
                => /\ state'.cartToken = storage.token
                   /\ tasks'[t].req.method = "GET" /\ tasks'[t].req.path = "/cart"
                   /\ tasks'[t].req.token = storage.token
           /\ (tasks[t].pc = "initialFetch" /\ Responded(t))
                => storage'.token = storage.token ]_vars

C22_FailedUpdateKeepsCart ==
  (last.op = "updateBasket" /\ last.result = "caught")
  => state.cart = last.before.cart

C22_Witness ==
  /\ last.op = "updateBasket" /\ last.result = "caught"
  /\ Len(last.reqs) = 2 /\ fails = 1
  /\ state.cart = last.before.cart
  /\ state.cart # FreshCart


\* C23: a toggleMode(mode) called when the cart in state offers no shipping
\* rate of the mode sets the mode flag, sends no request, and leaves the cart
\* and the cart token as they were.
C23_NoRateNoRequest ==
  [][ ( /\ call'.op = "toggleMode" /\ call'.did = "started"
        /\ ~\E x \in state.cart.rates : x.method_id = MethodOf(call'.mode) )
      => /\ state'.isDelivery = (call'.mode = "delivery")
         /\ \A t \in TaskIds : tasks'[t].op # "toggleMode"
         /\ last'.op = "toggleMode" /\ last'.reqs = <<>>
         /\ state'.cart = state.cart
         /\ state'.cartToken = state.cartToken
         /\ storage'.token = storage.token ]_vars


\* C24: toggleMode never rejects; when it returns after its select-rate
\* request or the GET /cart that follows failed, the returning step leaves the
\* mode flag as toggleMode set it, the local cart is the one toggleMode was
\* called with, and isSyncing is false.
C24_FailedToggle ==
  [][ (last'.op = "toggleMode" /\ last' # last)
      => /\ last'.result # "threw"
         /\ last'.result = "caught"
              => /\ state'.isDelivery = state.isDelivery
                 /\ state'.cart = last'.before.cart
                 /\ ~state'.isSyncing ]_vars

C24_Witness ==
  /\ last.op = "toggleMode" /\ last.result = "caught"
  /\ Len(last.reqs) = 2 /\ IsSelectRate(last.reqs[1], "local_pickup")
  /\ ~state.isDelivery /\ ~state.isSyncing
  /\ state.cart = last.before.cart /\ state.cart.sel = "flat_rate"


\* C25: with no request lost and nothing in progress, the shipping rate
\* selected in the local cart is the one of the mode flag whenever the cart
\* offers that rate.
C25_RateMatchesMode ==
  ( /\ Quiescent /\ fails = 0
    /\ \E x \in state.cart.rates :
          x.method_id = MethodOf(IF state.isDelivery THEN "delivery"
                                 ELSE "collection") )
  => state.cart.sel = MethodOf(IF state.isDelivery THEN "delivery"
                               ELSE "collection")


\* C26: once the basket provider has unmounted, a result that arrives for a
\* suspended cart operation changes neither the cart, nor the busy flag, nor
\* the origin (in state or persisted).
C26_AbsorbedAfterUnmount ==
  [][ (~refs.mounted /\ ~refs'.mounted)
      => /\ state'.cart = state.cart
         /\ state'.isSyncing = state.isSyncing
         /\ state'.originBusiness = state.originBusiness
         /\ storage'.origin = storage.origin ]_vars


\* A token-less request that the service, having issued MaxTokens sessions,
\* does not answer, with no request left to lose: it never settles.
NeverSettles ==
  \E t \in TaskIds :
     /\ InFlight(t) /\ tasks[t].req.token = NoToken
     /\ server.issued = MaxTokens /\ fails = MaxFails

\* C27: whenever isSyncing is set it is cleared again, provided the requests
\* of the operation settle, whether they succeed or fail.
C27_BusyReleased ==
  state.isSyncing ~> (~state.isSyncing \/ NeverSettles)

C27_Witness ==
  /\ last.op = "reorderItems" /\ last.result = "threw"
  /\ last.reqs[Len(last.reqs)].path = "/cart" /\ Len(last.reqs) >= 3
  /\ ~state.isSyncing


\* C28: with nothing in progress and the effects run, the token
\* getCartTokenValue returns is the token persisted under '@Cart:token'.
C28_TokenInSync ==
  Quiescent => getCartTokenValue = storage.token


\* The checkout request of task t is sent in this step.
OrderSent(t) == tasks'[t].pc = "createOrder" /\ tasks[t].pc # "createOrder"

\* createOrder of task t returns an order in this step: the remote service
\* accepted the checkout of the request's session.
OrderReturned(t) ==
  /\ tasks[t].pc = "createOrder" /\ tasks'[t].pc # "createOrder"
  /\ tasks[t].req.token \in Tokens
  /\ server.sessions[tasks[t].req.token] # EmptySession
  /\ server'.sessions[tasks[t].req.token] = EmptySession

\* What the screen shows when a handler is called allows an order: items in
\* the cart, a payment method, a billing address and, in delivery mode, a
\* shipping address.
OrderComplete ==
  /\ rendered.cart.present /\ rendered.cart.items # {}
  /\ checkout.selectedPaymentMethod # ""
  /\ checkout.selectedBillingAddress
  /\ rendered.isDelivery => checkout.selectedShippingAddress

ClearFails(t) ==
  /\ tasks[t].op = "handleClearAndAdd" /\ tasks[t].pc = "clearForAdd"
  /\ tasks'[t].pc # "clearForAdd"
  /\ fails' = fails + 1

\* C30: when the clear-cart request of handleClearAndAdd fails, the pending
\* add is not sent, the local cart and the recorded origin stay as they were
\* before the resolution, and isSyncing is released.
C30_FailedClearKeepsCart ==
  [][ \A t \in TaskIds :
        ClearFails(t) =>
          /\ last'.op = "handleClearAndAdd"
          /\ Len(last'.reqs) = 1 /\ last'.reqs[1].method = "DELETE"
          /\ tasks'[t] = IdleTask
          /\ state'.cart = last'.before.cart
          /\ state'.originBusiness = last'.before.originBusiness
          /\ storage'.origin = storage.origin
          /\ ~state'.isSyncing
    ]_vars

\* A clear-and-add whose clear request was lost: the cart of the old business
\* and its origin are still there and nothing is in progress.
C30_Witness ==
  /\ last.op = "handleClearAndAdd" /\ last.result = "caught"
  /\ Len(last.reqs) = 1 /\ fails = 1
  /\ state.cart = last.before.cart /\ state.cart.items # {}
  /\ state.originBusiness = last.before.originBusiness
  /\ state.originBusiness \notin {NoBusiness, last.biz}
  /\ ~state.isSyncing


=============================================================================
